---- MODULE Spec2Model ----
(***************************************************************************)
(* Model of the constructor-based Client of src/src/client.ts (lines       *)
(* 342-424): one Client session, the promises its connect() calls return,  *)
(* and the event-bus transports (the Bus interface, lines 329-337) those   *)
(* calls create.  The transport is the bridge client the package depends   *)
(* on; the session drives it through enableReconnect, onopen,              *)
(* registerHandler and close only.  The factory-based Client of lines      *)
(* 136-197 is modelled beside it, in the variables named factory*; of      *)
(* jwtDecrypt it takes that it throws when the token does not decrypt or   *)
(* its issuer is not the one asked for.                                    *)
(*                                                                         *)
(* What the model takes from the transport:                                *)
(*  - it fires the open notification each time a connection comes up, the  *)
(*    first time and after every reconnect;                                *)
(*  - registerHandler adds a handler to those of the address, and a        *)
(*    message on the address runs every handler registered for it;         *)
(*  - registerHandler on a transport that is not open throws;              *)
(*  - handlers belong to a connection: a lost connection takes them with   *)
(*    it, and the connection set up by a reconnect starts with none;       *)
(*  - with reconnect enabled it retries a lost or failed connection until  *)
(*    its attempts are used up, and close() ends the retries.              *)
(***************************************************************************)
EXTENDS Naturals, Sequences, FiniteSets

(* ---------------------------------------------------------------- bounds *)
\* connect() calls made on the session (each creates at most one transport)
MaxConnects == 2
\* handlers one transport holds for one address
MaxHandlers == 2
\* options.maxReconnectAttempts handed to the transport
MaxReconnectAttempts == 1
\* messages the bus delivers
MaxMessages == 1
\* distinct callbacks the consumer may pass to onItemUpdate
NumCallbacks == 2

(* ------------------------------------------------------------- constants *)
\* the company the session was constructed with (line 357), and another tenant
company   == "acme"
Companies == {company, "biot"}
Buses     == 1..MaxConnects
Callbacks == 1..NumCallbacks
\* this.onItemUpdateCallback = null (line 359); this.bus undefined
NoCallback == 0
NoBus      == 0

\* the address of line 383: `items.updates.${this.company}`
Channel(c) == <<"items.updates.", c>>
Addresses  == {Channel(c) : c \in Companies}

\* `${url}?token=${token}` (line 356)
Url(base, token) == <<base, "?token=", token>>
BaseUrls == {"ws://bus.a/eventbus", "ws://bus.b/eventbus"}
Tokens   == {"token-1", "token-2"}

\* ClientOptions (lines 222-251); NoOptions when the constructor was given none
NoOptions == [given |-> FALSE]
Options1 ==
  [given |-> TRUE, pingInterval |-> 5000,
   maxReconnectAttempts |-> MaxReconnectAttempts,
   minReconnectDelay |-> 1000, maxReconnectDelay |-> 8000,
   reconnectExponentialBackoffFactor |-> 2, randomizationFactor |-> 0]
Options2 ==
  [given |-> TRUE, pingInterval |-> 100,
   maxReconnectAttempts |-> MaxReconnectAttempts,
   minReconnectDelay |-> 10, maxReconnectDelay |-> 20,
   reconnectExponentialBackoffFactor |-> 3, randomizationFactor |-> 1]
OptionSets == {NoOptions, Options1, Options2}

\* UpdateType (lines 204-208)
UpdateTypes == {"POST", "PUT", "DELETE"}
\* an absent value: a content or an error that is undefined
Undefined == "undefined"
Ids      == {7, 42}
Contents == {Undefined, "{status: ok}"}
Errors   == {Undefined, "BusError"}

\* what the transport hands to a handler registered on address a: an error
\* value and a BusMessage (lines 301-306) whose body is an UpdateMessage
Envelopes(a) ==
  {[error |-> e, message |-> [address |-> a, body |-> [type |-> t, id |-> i, content |-> c]]] :
     e \in Errors, t \in UpdateTypes, i \in Ids, c \in Contents}

\* the envelope of an update of item 42 to {status: ok}, without error
PutEnvelope(a) ==
  [error |-> Undefined,
   message |-> [address |-> a, body |-> [type |-> "PUT", id |-> 42, content |-> "{status: ok}"]]]

\* what console.error prints (lines 389 and 408)
NoCallbackReport   == "No callback was registered for item update"
NotConnectedReport == "The client is not connected"
NoReport           == "none"

VARIABLES
  url,                   \* this.url
  options,               \* this.options
  inbound,               \* the envelope the last step delivered, <<>> if none
  args,                  \* the argument lists of the callback invocations it led to
  built,                 \* built[b]: what `new EventBus` was called with for b
  bus,                   \* this.bus: NoBus or the transport last assigned
  onItemUpdateCallback,  \* this.onItemUpdateCallback
  nConnect,              \* number of connect() calls made so far
  setup,                 \* setup[i]: how the try block of the i-th connect() ended
  promise,               \* promise[i]: state of the promise of the i-th connect()
  state,                 \* state[b]: transport b's connection state
  reconnectEnabled,      \* reconnectEnabled[b]
  reconnectAttempts,     \* reconnectAttempts[b]
  onopen,                \* onopen[b]: the hook of lines 381-394 is assigned to b
  handlers,              \* handlers[b][a]: handlers registered on b for address a
  registered,            \* registered[b]: addresses registerHandler was called with on b
  closeCalled,           \* closeCalled[b]: close() has been called on b
  nDelivered,            \* messages delivered so far; a message is named by its number
  passed,                \* the callback the latest onItemUpdate() call was given
  replaced,              \* an onItemUpdate() call was given a callback other than
                         \* the one the latest call before it was given
  last,                  \* what the last operation did
  \* the Client of lines 136-197, made by Client.create()
  factoryToken,          \* the token create() was called with
  factoryClient,         \* the Client create() returned, if it returned one
  factoryBus,            \* this.bus
  factoryCallback,       \* this.onItemUpdateCallback
  factoryNConnect,       \* number of connect() calls made so far
  factoryState,          \* factoryState[b]: connection state of the i-th call's transport
  factoryAttempts,       \* factoryAttempts[b]: reconnects of b so far
  factoryHandlers,       \* factoryHandlers[b]: handlers registered on b for the tenant channel
  factoryPromise,        \* factoryPromise[i]: state of the promise of the i-th connect()
  factoryLog,            \* factoryLog[b]: the calls the open hook of b made, in order
  factoryNDelivered,     \* messages delivered so far
  factoryLast            \* what the last operation did

constructorVars ==
  <<url, options, built, inbound, args, bus, onItemUpdateCallback, nConnect,
    setup, promise, state, reconnectEnabled, reconnectAttempts, onopen,
    handlers, registered, closeCalled, nDelivered, passed, replaced, last>>
factoryVars ==
  <<factoryToken, factoryClient, factoryBus, factoryCallback, factoryNConnect,
    factoryState, factoryAttempts, factoryHandlers, factoryPromise, factoryLog,
    factoryNDelivered, factoryLast>>
vars == <<constructorVars, factoryVars>>

sessionVars   == <<bus, onItemUpdateCallback>>
configVars    == <<url, options>>

\* a step that runs no message handler
NothingDelivered == inbound' = <<>> /\ args' = <<>>
transportVars == <<state, reconnectEnabled, reconnectAttempts,
                   onopen, handlers, registered, closeCalled>>
deliveryVars  == <<nDelivered, passed, replaced>>

\* the record an operation leaves in `last`
Did(op, report, threw, closed, calls) ==
  [op |-> op, report |-> report, threw |-> threw, closed |-> closed,
   calls |-> calls]

(* --------------------------------------------------------------- promise *)
\* resolve() and reject() of the Promise of line 368: a settled promise
\* ignores every later call
Resolve(p) == IF p = "pending" THEN "resolved" ELSE p
Reject(p)  == IF p = "pending" THEN "rejected" ELSE p

(* ------------------------------------------------------------------ Init *)
\* no transport constructed yet
NotBuilt == [called |-> FALSE]

\* what `new Client(..)` leaves besides this.url and this.options (lines
\* 357-359), with no transport and nothing delivered yet
Fresh ==
  /\ built = [b \in Buses |-> NotBuilt]
  /\ inbound = <<>>
  /\ args = <<>>
  /\ bus = NoBus
  /\ onItemUpdateCallback = NoCallback
  /\ nConnect = 0
  /\ setup = [i \in Buses |-> "none"]
  /\ promise = [i \in Buses |-> "none"]
  /\ state = [b \in Buses |-> "NONE"]
  /\ reconnectEnabled = [b \in Buses |-> FALSE]
  /\ reconnectAttempts = [b \in Buses |-> 0]
  /\ onopen = [b \in Buses |-> FALSE]
  /\ handlers = [b \in Buses |-> [a \in Addresses |-> 0]]
  /\ registered = [b \in Buses |-> {}]
  /\ closeCalled = [b \in Buses |-> FALSE]
  /\ nDelivered = 0
  /\ passed = NoCallback
  /\ replaced = FALSE
  /\ last = Did("new", NoReport, FALSE, NoBus, <<>>)

\* what a step of the Client of lines 136-197 did; none of its methods
\* calls console.error
FactoryDid(op, threw, closed, ib, as) ==
  [op |-> op, report |-> NoReport, threw |-> threw, closed |-> closed,
   inbound |-> ib, args |-> as]

NoToken  == [given |-> FALSE]
NoClient == [made |-> FALSE, company |-> Undefined]

\* before Client.create() is called (lines 136-141: no field has an
\* initializer)
FactoryFresh ==
  /\ factoryToken = NoToken
  /\ factoryClient = NoClient
  /\ factoryBus = NoBus
  /\ factoryCallback = NoCallback
  /\ factoryNConnect = 0
  /\ factoryState = [b \in Buses |-> "NONE"]
  /\ factoryAttempts = [b \in Buses |-> 0]
  /\ factoryHandlers = [b \in Buses |-> 0]
  /\ factoryPromise = [b \in Buses |-> "none"]
  /\ factoryLog = [b \in Buses |-> <<>>]
  /\ factoryNDelivered = 0
  /\ factoryLast = FactoryDid("new", FALSE, NoBus, <<>>, <<>>)

\* the state after `new Client(url, token, company, options)` (lines 355-360)
Init ==
  /\ url = Url("ws://bus.a/eventbus", "token-1")
  /\ options = Options1
  /\ Fresh
  /\ FactoryFresh

(* ------------------------------------------------------------- connect() *)
\* How the try block of lines 369-394 can end: it runs to its end, or
\* `new EventBus(..)` throws (line 378), or enableReconnect(true) throws
\* (line 379).
SetupOutcomes == {"ok", "constructorThrows", "enableReconnectThrows"}

\* the options vertxbus_ping_interval and vertxbus_reconnect_delay_min mixed up
BusOptionsMixedUp(o) ==
  IF o.given
    THEN [given |-> TRUE,
          vertxbus_ping_interval |-> o.minReconnectDelay,
          vertxbus_reconnect_attempts_max |-> o.maxReconnectAttempts,
          vertxbus_reconnect_delay_min |-> o.pingInterval,
          vertxbus_reconnect_delay_max |-> o.maxReconnectDelay,
          vertxbus_reconnect_exponent |-> o.reconnectExponentialBackoffFactor,
          vertxbus_randomization_factor |-> o.randomizationFactor]
    ELSE NoOptions

\* the second argument of `new EventBus` (lines 370-377): this.options when it
\* is undefined, otherwise the six vertxbus_* fields
BusOptions(o) ==
  IF o.given
    THEN [given |-> TRUE,
          vertxbus_ping_interval |-> o.pingInterval,
          vertxbus_reconnect_attempts_max |-> o.maxReconnectAttempts,
          vertxbus_reconnect_delay_min |-> o.minReconnectDelay,
          vertxbus_reconnect_delay_max |-> o.maxReconnectDelay,
          vertxbus_reconnect_exponent |-> o.reconnectExponentialBackoffFactor,
          vertxbus_randomization_factor |-> o.randomizationFactor]
    ELSE NoOptions

\* this.bus after connect(): line 378 assigns only when the constructor returned
ConnectBus(cur, i, outcome) ==
  IF outcome = "constructorThrows" THEN cur ELSE i

\* a catch block that swallows the error instead of rejecting
ConnectPromiseSwallowed(outcome) == "pending"

\* the promise when the executor of lines 368-398 returns: the catch of lines
\* 395-397 rejects, otherwise nothing has settled it yet
ConnectPromise(outcome) ==
  IF outcome = "ok" THEN "pending" ELSE Reject("pending")

\* the hook of line 381 is assigned only when lines 378-379 did not throw
ConnectSetsHook(outcome) == outcome = "ok"

\* connect(), lines 367-399; i is the number of this call, and of the
\* transport and the promise it creates
Connect(outcome) ==
  LET i == nConnect + 1 IN
  /\ nConnect < MaxConnects
  /\ nConnect' = i
  /\ setup' = [setup EXCEPT ![i] = outcome]
  /\ bus' = ConnectBus(bus, i, outcome)
  /\ promise' = [promise EXCEPT ![i] = ConnectPromise(outcome)]
  /\ state' = [state EXCEPT ![i] =
                 IF outcome = "constructorThrows" THEN "NONE" ELSE "CONNECTING"]
  /\ reconnectEnabled' = [reconnectEnabled EXCEPT ![i] = (outcome = "ok")]
  /\ onopen' = [onopen EXCEPT ![i] = ConnectSetsHook(outcome)]
  /\ last' = Did("connect", NoReport, FALSE, NoBus, <<>>)
  /\ built' = [built EXCEPT ![i] =
                 [called |-> TRUE, url |-> url, options |-> BusOptions(options)]]
  /\ NothingDelivered
  /\ UNCHANGED <<configVars, factoryVars>>
  /\ UNCHANGED <<onItemUpdateCallback, reconnectAttempts, handlers,
                 registered, closeCalled, deliveryVars>>

(* ---------------------------------------------------------- disconnect() *)
\* disconnect() without the guard of line 405: close() is called on whatever
\* this.bus holds, which throws a TypeError when it holds nothing
DisconnectingUnguarded(cur) ==
  [closes |-> cur, report |-> NoReport, threw |-> (cur = NoBus)]

\* the branch disconnect() takes (lines 405-409): with a transport stored it
\* calls close() on it, otherwise it reports through console.error; neither
\* branch throws
Disconnecting(cur) ==
  IF cur # NoBus
    THEN [closes |-> cur, report |-> NoReport, threw |-> FALSE]
    ELSE [closes |-> NoBus, report |-> NotConnectedReport, threw |-> FALSE]

\* a disconnect() that forgets the transport it closed
DisconnectBusCleared(cur) == NoBus

\* this.bus after disconnect(): no line of 404-410 assigns it
DisconnectBus(cur) == cur

\* disconnect(), lines 404-410.  close() of the Bus interface (line 336)
\* makes the transport stop reconnecting and shut its connection down.
Disconnect ==
  LET d == Disconnecting(bus)
      b == d.closes IN
  /\ bus' = DisconnectBus(bus)
  /\ IF b # NoBus
       THEN /\ closeCalled' = [closeCalled EXCEPT ![b] = TRUE]
            /\ state' = [state EXCEPT ![b] =
                           IF @ \in {"CONNECTING", "OPEN"} THEN "CLOSING" ELSE @]
            /\ reconnectEnabled' = [reconnectEnabled EXCEPT ![b] = FALSE]
       ELSE UNCHANGED <<closeCalled, state, reconnectEnabled>>
  /\ last' = Did("disconnect", d.report, d.threw, b, <<>>)
  /\ NothingDelivered
  /\ UNCHANGED <<configVars, built, factoryVars>>
  /\ UNCHANGED <<onItemUpdateCallback, nConnect, setup, promise, reconnectAttempts,
                 onopen, handlers, registered, deliveryVars>>

(* -------------------------------------------------------- onItemUpdate() *)
\* a slot that keeps the first callback it was given
SetCallbackKeepFirst(cur, cb) == IF cur = NoCallback THEN cb ELSE cur

\* an onItemUpdate() that leaves the slot as it is
SetCallbackIgnored(cur, cb) == cur

\* line 418: the slot takes the new callback whatever it held
SetCallback(cur, cb) == cb

\* the callback invocations onItemUpdate(cb) makes after n messages have been
\* delivered: lines 417-419 assign the slot and invoke nothing
OnItemUpdateInvokes(cb, n) == <<>>

\* onItemUpdate(callback), lines 417-419
OnItemUpdate(cb) ==
  /\ onItemUpdateCallback' = SetCallback(onItemUpdateCallback, cb)
  /\ passed' = cb
  /\ replaced' = (replaced \/ (passed # NoCallback /\ passed # cb))
  /\ last' = Did("onItemUpdate", NoReport, FALSE, NoBus,
                 OnItemUpdateInvokes(cb, nDelivered))
  /\ NothingDelivered
  /\ UNCHANGED <<configVars, built, factoryVars>>
  /\ UNCHANGED <<bus, nConnect, setup, promise, transportVars, nDelivered>>

(* ------------------------------------------------- transport: open hook *)
\* The hook assigned at line 381, run for the open notification of transport
\* b.  Line 382 calls registerHandler on this.bus, the transport the session
\* holds when the hook runs; a transport that is not open refuses the call
\* by throwing, and then line 393 is not reached.
HookTarget(b) == bus

\* the transport's connection comes up: it fires its open notification, and
\* with it the hook when one is assigned (lines 381-394)
SockOpen(b) ==
  LET t   == HookTarget(b)
      a   == Channel(company)
      st  == [state EXCEPT ![b] = "OPEN"]
      hooked   == onopen[b]
      accepted == hooked /\ st[t] = "OPEN" IN
  /\ state[b] = "CONNECTING"
  /\ accepted => handlers[t][a] < MaxHandlers
  /\ state' = st
  /\ IF accepted
       THEN /\ handlers' = [handlers EXCEPT ![t][a] = @ + 1]
            /\ registered' = [registered EXCEPT ![t] = @ \cup {a}]
            /\ promise' = [promise EXCEPT ![b] = Resolve(@)]
       ELSE UNCHANGED <<handlers, registered, promise>>
  /\ reconnectAttempts' = [reconnectAttempts EXCEPT ![b] =
                             IF hooked /\ ~accepted THEN @ ELSE 0]
  /\ last' = Did("open", NoReport, hooked /\ ~accepted, NoBus, <<>>)
  /\ NothingDelivered
  /\ UNCHANGED <<configVars, built, factoryVars>>
  /\ UNCHANGED <<bus, onItemUpdateCallback, nConnect, setup, reconnectEnabled,
                 onopen, closeCalled, deliveryVars>>

(* ------------------------------------------- transport: loss and reconnect *)
NoHandlers == [a \in Addresses |-> 0]

\* The connection of b fails or is lost, and its handlers go with it.  With
\* reconnect enabled (line 379) and attempts left
\* (vertxbus_reconnect_attempts_max, line 372) b sets up a fresh connection,
\* which will fire the open notification again; otherwise b stays closed.
SockClose(b) ==
  LET again == reconnectEnabled[b] /\ reconnectAttempts[b] < MaxReconnectAttempts IN
  /\ state[b] \in {"CONNECTING", "OPEN"}
  /\ state' = [state EXCEPT ![b] = IF again THEN "CONNECTING" ELSE "CLOSED"]
  /\ reconnectAttempts' = [reconnectAttempts EXCEPT ![b] = IF again THEN @ + 1 ELSE @]
  /\ handlers' = [handlers EXCEPT ![b] = NoHandlers]
  /\ last' = Did("close", NoReport, FALSE, NoBus, <<>>)
  /\ NothingDelivered
  /\ UNCHANGED <<configVars, built, factoryVars>>
  /\ UNCHANGED <<bus, onItemUpdateCallback, nConnect, setup, promise,
                 reconnectEnabled, onopen, registered, closeCalled,
                 deliveryVars>>

\* the shutdown started by close() completes
CloseDone(b) ==
  /\ state[b] = "CLOSING"
  /\ state' = [state EXCEPT ![b] = "CLOSED"]
  /\ handlers' = [handlers EXCEPT ![b] = NoHandlers]
  /\ last' = Did("closed", NoReport, FALSE, NoBus, <<>>)
  /\ NothingDelivered
  /\ UNCHANGED <<configVars, built, factoryVars>>
  /\ UNCHANGED <<bus, onItemUpdateCallback, nConnect, setup, promise,
                 reconnectEnabled, reconnectAttempts, onopen, registered,
                 closeCalled, deliveryVars>>

(* ---------------------------------------------------------- message handler *)
\* a handler without the else branch of lines 388-390: with no callback it
\* does nothing and says nothing
MessageHandlerSilent(cb, m) ==
  [calls |-> IF cb # NoCallback THEN <<[cb |-> cb, m |-> m]>> ELSE <<>>,
   report |-> NoReport]

\* a handler that invokes the callback only while the session holds a
\* transport it has not closed
MessageHandlerWhileConnected(cb, m) ==
  IF cb # NoCallback /\ bus # NoBus /\ ~closeCalled[bus]
    THEN [calls |-> <<[cb |-> cb, m |-> m]>>, report |-> NoReport]
    ELSE [calls |-> <<>>, report |-> NoCallbackReport]

\* The handler of lines 384-391, run for message m while the slot holds cb:
\* the callback invocations it makes and what it reports.
MessageHandler(cb, m) ==
  IF cb # NoCallback
    THEN [calls |-> <<[cb |-> cb, m |-> m]>>, report |-> NoReport]
    ELSE [calls |-> <<>>, report |-> NoCallbackReport]

\* the callback is handed the content only for POST and PUT
CallbackArgsNoDeleteContent(error, message) ==
  <<message.body.type, message.body.id,
    IF message.body.type = "DELETE" THEN Undefined ELSE message.body.content,
    error>>

\* the arguments of the invocation of lines 386-387 (and 178-179):
\* (body.type, body.id, body.content, error)
CallbackArgs(error, message) ==
  <<message.body.type, message.body.id, message.body.content, error>>

RECURSIVE Repeat(_, _)
\* s concatenated n times: the transport runs every handler registered for the
\* address, one after the other
Repeat(s, n) == IF n = 0 THEN <<>> ELSE s \o Repeat(s, n - 1)

\* the transport delivers message number nDelivered + 1, in envelope env, on
\* address a of b and runs each handler registered there
Deliver(b, a, env) ==
  LET m == nDelivered + 1
      h == MessageHandler(onItemUpdateCallback, m)
      n == handlers[b][a] IN
  /\ state[b] \in {"OPEN", "CLOSING"}
  /\ n > 0
  /\ nDelivered < MaxMessages
  /\ nDelivered' = m
  /\ last' = Did("deliver", h.report, FALSE, NoBus, Repeat(h.calls, n))
  /\ inbound' = <<env>>
  /\ args' = Repeat(IF h.calls # <<>>
                      THEN <<CallbackArgs(env.error, env.message)>>
                      ELSE <<>>, n)
  /\ UNCHANGED <<configVars, built, factoryVars>>
  /\ UNCHANGED <<bus, onItemUpdateCallback, nConnect, setup, promise,
                 transportVars, passed, replaced>>

(* ------------------------------------------------------------------ Next *)
Next ==
  \/ \E outcome \in SetupOutcomes : Connect(outcome)
  \/ Disconnect
  \/ \E cb \in Callbacks : OnItemUpdate(cb)
  \/ \E b \in Buses : SockOpen(b)
  \/ \E b \in Buses : SockClose(b)
  \/ \E b \in Buses : CloseDone(b)
  \/ \E b \in Buses, a \in Addresses : Deliver(b, a, PutEnvelope(a))

Spec == Init /\ [][Next]_vars

(* ========================================== the Client of lines 136-197 *)
\* The tokens create() may be given: an encrypted JWT either decrypts with
\* the private key or does not; one that does carries an issuer and may or
\* may not carry a company claim.
Issuers == {"BioT", "Mallory"}
FactoryTokens ==
  {[given |-> TRUE, decrypts |-> d, issuer |-> i, hasCompany |-> h, company |-> c] :
     d \in BOOLEAN, i \in Issuers, h \in BOOLEAN, c \in Companies}

\* jwtDecrypt(token, key, {issuer}) (lines 151-153): it throws when the token
\* does not decrypt or its issuer is not the expected one, and otherwise
\* returns the payload, of which only the company claim is used.
JwtDecrypt(tok, issuer) ==
  IF tok.decrypts /\ tok.issuer = issuer
    THEN [threw |-> FALSE,
          payload |-> [company |-> IF tok.hasCompany THEN tok.company ELSE Undefined]]
    ELSE [threw |-> TRUE, payload |-> [company |-> Undefined]]

\* Client.create(url, tok, options) (lines 149-156): payload.company is
\* taken as it is, and the client is built with it
Create(tok) ==
  LET d == JwtDecrypt(tok, "BioT") IN
  /\ factoryToken = NoToken
  /\ factoryToken' = tok
  /\ factoryClient' = IF d.threw THEN NoClient
                      ELSE [made |-> TRUE, company |-> d.payload.company]
  /\ factoryLast' = FactoryDid("create", d.threw, NoBus, <<>>, <<>>)
  /\ UNCHANGED <<factoryBus, factoryCallback, factoryNConnect, factoryState,
                 factoryAttempts, factoryHandlers, factoryPromise, factoryLog,
                 factoryNDelivered>>
  /\ UNCHANGED constructorVars

\* connect() (lines 158-184): the transport is held by the local `bus` of
\* line 168 only, and this.bus is not assigned
FactoryConnect ==
  LET i == factoryNConnect + 1 IN
  /\ factoryClient.made
  /\ factoryNConnect < MaxConnects
  /\ factoryNConnect' = i
  /\ factoryState' = [factoryState EXCEPT ![i] = "CONNECTING"]
  /\ factoryPromise' = [factoryPromise EXCEPT ![i] = "pending"]
  /\ factoryLast' = FactoryDid("connect", FALSE, NoBus, <<>>, <<>>)
  /\ UNCHANGED <<factoryToken, factoryClient, factoryBus, factoryCallback,
                 factoryAttempts, factoryHandlers, factoryLog, factoryNDelivered>>
  /\ UNCHANGED constructorVars

\* the calls of the open hook, in the order it makes them (lines 171-181)
FactoryHookCalls(c) == << <<"resolve">>, <<"registerHandler", Channel(c)>> >>

\* transport b opens and runs its hook (lines 171-182)
FactorySockOpen(b) ==
  /\ factoryState[b] = "CONNECTING"
  /\ factoryState' = [factoryState EXCEPT ![b] = "OPEN"]
  /\ factoryLog' = [factoryLog EXCEPT ![b] = FactoryHookCalls(factoryClient.company)]
  /\ factoryPromise' = [factoryPromise EXCEPT ![b] = Resolve(@)]
  /\ factoryHandlers' = [factoryHandlers EXCEPT ![b] = @ + 1]
  /\ factoryLast' = FactoryDid("open", FALSE, NoBus, <<>>, <<>>)
  /\ UNCHANGED <<factoryToken, factoryClient, factoryBus, factoryCallback,
                 factoryNConnect, factoryAttempts, factoryNDelivered>>
  /\ UNCHANGED constructorVars

\* the connection of b is lost, its handlers with it; reconnect is enabled
\* (line 169), so b connects again while it has attempts left
FactorySockClose(b) ==
  LET again == factoryAttempts[b] < MaxReconnectAttempts IN
  /\ factoryState[b] \in {"CONNECTING", "OPEN"}
  /\ factoryState' = [factoryState EXCEPT ![b] = IF again THEN "CONNECTING" ELSE "CLOSED"]
  /\ factoryAttempts' = [factoryAttempts EXCEPT ![b] = IF again THEN @ + 1 ELSE @]
  /\ factoryHandlers' = [factoryHandlers EXCEPT ![b] = 0]
  /\ factoryLast' = FactoryDid("close", FALSE, NoBus, <<>>, <<>>)
  /\ UNCHANGED <<factoryToken, factoryClient, factoryBus, factoryCallback,
                 factoryNConnect, factoryPromise, factoryLog, factoryNDelivered>>
  /\ UNCHANGED constructorVars

\* this.bus.close() (line 187): a TypeError when this.bus is undefined
FactoryDisconnecting(cur) ==
  IF cur # NoBus THEN [closes |-> cur, threw |-> FALSE]
                 ELSE [closes |-> NoBus, threw |-> TRUE]

\* disconnect() (lines 186-188)
FactoryDisconnect ==
  LET d == FactoryDisconnecting(factoryBus) IN
  /\ factoryClient.made
  /\ factoryState' = IF d.closes # NoBus
                       THEN [factoryState EXCEPT ![d.closes] = "CLOSED"]
                       ELSE factoryState
  /\ factoryHandlers' = IF d.closes # NoBus
                          THEN [factoryHandlers EXCEPT ![d.closes] = 0]
                          ELSE factoryHandlers
  /\ factoryLast' = FactoryDid("disconnect", d.threw, d.closes, <<>>, <<>>)
  /\ UNCHANGED <<factoryToken, factoryClient, factoryBus, factoryCallback,
                 factoryNConnect, factoryAttempts, factoryPromise, factoryLog,
                 factoryNDelivered>>
  /\ UNCHANGED constructorVars

\* onItemUpdate(callback) (lines 190-192)
FactoryOnItemUpdate(cb) ==
  /\ factoryClient.made
  /\ factoryCallback' = cb
  /\ factoryLast' = FactoryDid("onItemUpdate", FALSE, NoBus, <<>>, <<>>)
  /\ UNCHANGED <<factoryToken, factoryClient, factoryBus, factoryNConnect,
                 factoryState, factoryAttempts, factoryHandlers, factoryPromise,
                 factoryLog, factoryNDelivered>>
  /\ UNCHANGED constructorVars

\* the handler of lines 176-180 run for envelope env while the slot holds
\* cb: the argument lists of the invocations it makes
FactoryMessageHandler(cb, env) ==
  IF cb # NoCallback THEN <<CallbackArgs(env.error, env.message)>> ELSE <<>>

\* the transport delivers env on the tenant channel of b and runs each
\* handler registered there
FactoryDeliver(b, env) ==
  /\ factoryState[b] = "OPEN"
  /\ factoryHandlers[b] > 0
  /\ factoryNDelivered < MaxMessages
  /\ factoryNDelivered' = factoryNDelivered + 1
  /\ factoryLast' = FactoryDid("deliver", FALSE, NoBus, <<env>>,
                     Repeat(FactoryMessageHandler(factoryCallback, env),
                            factoryHandlers[b]))
  /\ UNCHANGED <<factoryToken, factoryClient, factoryBus, factoryCallback,
                 factoryNConnect, factoryState, factoryAttempts, factoryHandlers,
                 factoryPromise, factoryLog>>
  /\ UNCHANGED constructorVars

FactoryNext ==
  \/ \E tok \in FactoryTokens : Create(tok)
  \/ FactoryConnect
  \/ FactoryDisconnect
  \/ \E cb \in Callbacks : FactoryOnItemUpdate(cb)
  \/ \E b \in Buses : FactorySockOpen(b)
  \/ \E b \in Buses : FactorySockClose(b)
  \/ \E b \in Buses :
       \E env \in Envelopes(Channel(factoryClient.company)) : FactoryDeliver(b, env)

SpecFactory == Init /\ [][FactoryNext]_vars

(* ------------------------------------------------- sessions of any config *)
\* the state after `new Client(base, token, company, o)` for any base URL,
\* token and options, given or not (lines 355-360)
ConfigInit ==
  /\ url \in {Url(base, token) : base \in BaseUrls, token \in Tokens}
  /\ options \in OptionSets
  /\ Fresh
  /\ FactoryFresh

\* connecting and disconnecting such a session, and what its transports do
ConfigNext ==
  \/ \E outcome \in SetupOutcomes : Connect(outcome)
  \/ Disconnect
  \/ \E b \in Buses : SockOpen(b)
  \/ \E b \in Buses : SockClose(b)
  \/ \E b \in Buses : CloseDone(b)

SpecConfig == ConfigInit /\ [][ConfigNext]_vars

(* ---------------------------------------------- dispatch of any envelope *)
ConstructorUsed == last.op # "new"
FactoryUsed     == factoryLast.op # "new"

\* a program that uses a Client of either class, whose connect() calls
\* succeed and whose transports stay up, receiving any envelope
DispatchNext ==
  \/ ~FactoryUsed /\ Connect("ok")
  \/ ~FactoryUsed /\ \E cb \in Callbacks : OnItemUpdate(cb)
  \/ ~FactoryUsed /\ \E b \in Buses : SockOpen(b)
  \/ ~FactoryUsed /\ \E b \in Buses, a \in Addresses :
                        \E env \in Envelopes(a) : Deliver(b, a, env)
  \/ ~ConstructorUsed /\ \E tok \in FactoryTokens : Create(tok)
  \/ ~ConstructorUsed /\ FactoryConnect
  \/ ~ConstructorUsed /\ \E cb \in Callbacks : FactoryOnItemUpdate(cb)
  \/ ~ConstructorUsed /\ \E b \in Buses : FactorySockOpen(b)
  \/ ~ConstructorUsed /\ \E b \in Buses :
       \E env \in Envelopes(Channel(factoryClient.company)) : FactoryDeliver(b, env)

SpecDispatch == Init /\ [][DispatchNext]_vars

TypeOK ==
  /\ bus \in Buses \cup {NoBus}
  /\ onItemUpdateCallback \in Callbacks \cup {NoCallback}
  /\ \A b \in Buses : state[b] \in {"NONE", "CONNECTING", "OPEN", "CLOSING", "CLOSED"}
  /\ \A i \in Buses : promise[i] \in {"none", "pending", "resolved", "rejected"}

(* ================================================================ claims *)
Settled == {"resolved", "rejected"}
Threw(i) == setup[i] \in {"constructorThrows", "enableReconnectThrows"}
Active(b) == state[b] \in {"CONNECTING", "OPEN"}

\* C1: the promise of a connect() call is resolved at most once (once settled
\* it never changes), and it is resolved only when registerHandler has been
\* called with 'items.updates.' + company on the transport that call created.
C1_ResolvedOnceAfterOwnRegistration ==
  [][\A i \in Buses :
       /\ promise[i] \in Settled => promise'[i] = promise[i]
       /\ promise'[i] = "resolved" => Channel(company) \in registered'[i]]_vars

\* C2: once onItemUpdate(cb) has been called, a message delivered on the
\* tenant channel invokes cb exactly once.
C2_CallbackInvokedExactlyOnce ==
  (last.op = "deliver" /\ passed # NoCallback)
    => last.calls = <<[cb |-> passed, m |-> nDelivered]>>

\* C3: when constructing the transport or enableReconnect(true) throws during
\* connect(), the promise of that call is rejected, and it is not resolved in
\* any later state.
C3_SetupThrowRejects ==
  \A i \in Buses : Threw(i) => promise[i] = "rejected"

\* C3 witness: enableReconnect threw, the promise is rejected, and the
\* transport that call left behind has opened since.
C3_Witness ==
  \E i \in Buses :
    setup[i] = "enableReconnectThrows" /\ promise[i] = "rejected" /\ state[i] = "OPEN"

\* C4: a transport that fails for good without close() having been called on
\* it has the promise of its connect() call rejected (the promise does not
\* stay pending).
C4_SetupFailureRejects ==
  \A b \in Buses :
    (state[b] = "CLOSED" /\ ~closeCalled[b]) => promise[b] = "rejected"

\* C5: disconnect() on a session on which connect() was never called reports
\* 'not connected', does not throw, calls close() on no transport and changes
\* no field of the session and no transport.
C5_DisconnectNeverConnected ==
  [][(nConnect = 0 /\ last'.op = "disconnect")
       => /\ last'.report = NotConnectedReport
          /\ ~last'.threw
          /\ last'.closed = NoBus
          /\ UNCHANGED <<sessionVars, transportVars, nConnect, promise>>]_vars

\* C5 witness: disconnect() has run on a session that never connected.
C5_Witness ==
  nConnect = 0 /\ last.op = "disconnect" /\ last.report = NotConnectedReport

\* C6: a disconnect() made after an earlier disconnect() closed the session's
\* transport reports 'not connected' and calls close() on no transport.
C6_SecondDisconnectDoesNotClose ==
  [][((\E b \in Buses : closeCalled[b]) /\ last'.op = "disconnect")
       => (last'.report = NotConnectedReport /\ last'.closed = NoBus)]_vars

\* C7: at most one transport created by the session is active (created and
\* not closed) at any time.
C7_AtMostOneActiveTransport ==
  Cardinality({b \in Buses : Active(b)}) <= 1

\* C8: every callback invocation a delivery makes goes to the callback the
\* latest onItemUpdate() call was given, never to one it replaced.
C8_OnlyLatestCallbackInvoked ==
  last.op = "deliver" => \A k \in 1..Len(last.calls) : last.calls[k].cb = passed

\* C8 witness: a message was delivered to the callback of an onItemUpdate()
\* call that replaced another callback.
C8_Witness ==
  last.op = "deliver" /\ last.calls # <<>> /\ replaced

\* C9: a message delivered while no callback is registered is reported, does
\* not throw and invokes nothing; and a callback is only ever invoked by the
\* delivery of the message it is invoked for, never by a later operation.
C9_NoCallbackDropsMessage ==
  /\ (last.op = "deliver" /\ onItemUpdateCallback = NoCallback)
       => (last.report = NoCallbackReport /\ ~last.threw /\ last.calls = <<>>)
  /\ last.calls # <<>>
       => (last.op = "deliver"
           /\ \A k \in 1..Len(last.calls) : last.calls[k].m = nDelivered)

\* C9 witness: a message was delivered while the slot was empty.
C9_Witness ==
  last.op = "deliver" /\ onItemUpdateCallback = NoCallback /\ nDelivered > 0

\* C10: disconnect() never calls close() on a transport whose setup threw:
\* after a failed connect() the session holds no handle of that transport.
C10_FailedSetupLeavesNoTransport ==
  (last.op = "disconnect" /\ last.closed # NoBus) => ~Threw(last.closed)


\* C12: once disconnect() has closed the transport of a session whose
\* connect() had resolved, a later connect() call creates no transport and
\* stores none.
C12_NoConnectAfterDisconnect ==
  [][((\E b \in Buses : closeCalled[b] /\ promise[b] = "resolved")
        /\ last'.op = "connect")
       => UNCHANGED <<bus, state>>]_vars

\* C14 as stated: before the first connect(), neither onItemUpdate() nor
\* disconnect() changes the callback slot or the transport handle.
C14_CreatedAcceptsOnlyConnect ==
  [][(nConnect = 0 /\ last'.op \in {"onItemUpdate", "disconnect"})
       => UNCHANGED <<onItemUpdateCallback, bus>>]_vars

\* C14 as amended: before the first connect(), disconnect() changes neither
\* the callback slot nor the transport handle, and onItemUpdate(cb) leaves
\* the transport handle alone and stores cb in the callback slot.
C14_CreatedStoresCallback ==
  [][nConnect = 0
       => /\ last'.op = "disconnect" => UNCHANGED <<onItemUpdateCallback, bus>>
          /\ last'.op = "onItemUpdate"
               => (bus' = bus /\ onItemUpdateCallback' = passed')]_vars

\* C14 witness: onItemUpdate(cb) has run before any connect() and the slot
\* holds cb.
C14_Witness ==
  /\ nConnect = 0
  /\ last.op = "onItemUpdate"
  /\ passed # NoCallback
  /\ onItemUpdateCallback = passed

\* C18: the handlers registered for 'items.updates.' + company on a transport
\* whose connect() set it up count the open notifications it has fired: a
\* step is an open notification of transport b exactly when it adds one
\* handler to b, so the two counts stay equal.
C18_OneRegistrationPerOpen ==
  [][\A b \in Buses :
       setup[b] = "ok"
         => ((state[b] = "CONNECTING" /\ state'[b] = "OPEN")
               <=> (handlers'[b][Channel(company)]
                      = handlers[b][Channel(company)] + 1))]_vars

\* C19: onItemUpdate() changes neither the transport handle nor any
\* transport; disconnect() changes neither the callback slot nor the stored
\* transport handle; a delivery changes no field of the session.
C19_FrameConditions ==
  [][/\ last'.op = "onItemUpdate" => UNCHANGED <<bus, transportVars>>
     /\ last'.op = "disconnect" => UNCHANGED <<onItemUpdateCallback, bus>>
     /\ last'.op = "deliver" => UNCHANGED sessionVars]_vars

\* C19 witness: disconnect() has called close() on the stored transport and
\* the session still stores it.
C19_Witness ==
  last.op = "disconnect" /\ last.closed # NoBus /\ bus = last.closed

\* C20: whenever the transport runs the session's handlers, each of them
\* invokes the callback the slot holds, whatever the session's lifecycle
\* state, also after disconnect().
C20_DispatchIgnoresLifecycle ==
  (last.op = "deliver" /\ onItemUpdateCallback # NoCallback)
    => /\ last.calls # <<>>
       /\ \A k \in 1..Len(last.calls) :
            last.calls[k] = [cb |-> onItemUpdateCallback, m |-> nDelivered]

\* C20 witness: a message was delivered to the callback on a transport the
\* session had already called close() on.
C20_Witness ==
  /\ last.op = "deliver"
  /\ last.calls # <<>>
  /\ \A b \in Buses : handlers[b][Channel(company)] > 0 => closeCalled[b]


\* C17: every `new EventBus` call of connect() is given the stored URL, which
\* is base URL + '?token=' + token, and no configuration when the session has
\* no options, otherwise a configuration whose six vertxbus_* fields equal
\* the six ClientOptions fields; and a transport carries the open hook only
\* with reconnect enabled, until close() is called on it.
C17_TransportBuiltFromConfig ==
  \A b \in Buses :
    /\ built[b].called =>
         /\ built[b].url = url
         /\ \E base \in BaseUrls, token \in Tokens : built[b].url = Url(base, token)
         /\ IF options.given
              THEN LET c == built[b].options IN
                   /\ c.given
                   /\ c.vertxbus_ping_interval = options.pingInterval
                   /\ c.vertxbus_reconnect_attempts_max = options.maxReconnectAttempts
                   /\ c.vertxbus_reconnect_delay_min = options.minReconnectDelay
                   /\ c.vertxbus_reconnect_delay_max = options.maxReconnectDelay
                   /\ c.vertxbus_reconnect_exponent
                        = options.reconnectExponentialBackoffFactor
                   /\ c.vertxbus_randomization_factor = options.randomizationFactor
              ELSE built[b].options = NoOptions
    /\ (onopen[b] /\ ~closeCalled[b]) => reconnectEnabled[b]

\* C17 witness: a transport built from given options has opened.
C17_Witness ==
  \E b \in Buses :
    built[b].called /\ options = Options2 /\ state[b] = "OPEN" /\ onopen[b]


C11_ClientOnlyFromValidToken ==
  /\ factoryClient.made
       => /\ factoryToken.decrypts
          /\ factoryToken.issuer = "BioT"
          /\ factoryToken.hasCompany
          /\ factoryClient.company = factoryToken.company
  /\ (factoryLast.op = "create" /\ ~factoryClient.made) => factoryLast.threw

\* C15: among the calls the open hook of a transport made, resolve comes only
\* after registerHandler on 'items.updates.' + company.
C15_RegisteredBeforeResolved ==
  \A b \in Buses :
    \A k \in 1..Len(factoryLog[b]) :
      factoryLog[b][k] = <<"resolve">>
        => \E j \in 1..(k - 1) :
             factoryLog[b][j] = <<"registerHandler", Channel(factoryClient.company)>>

\* C16: disconnect() does not throw: after a connect() that was resolved it
\* calls close() on a transport connect() created, and without any transport
\* it closes nothing and reports 'The client is not connected'.
C16_DisconnectClosesOrReports ==
  factoryLast.op = "disconnect"
    => /\ ~factoryLast.threw
       /\ (\E i \in Buses : factoryPromise[i] = "resolved")
            => (factoryLast.closed # NoBus /\ factoryState[factoryLast.closed] # "NONE")
       /\ factoryNConnect = 0
            => (factoryLast.closed = NoBus /\ factoryLast.report = NotConnectedReport)

====
